---- MODULE Spec2Model ----
(***************************************************************************)
(* Resumable streaming ingestion of a movie collection into a vector       *)
(* index: scripts/resume_ingestion_pinecone.py.                             *)
(*                                                                         *)
(* The driver (module level code) loads the checkpoint, streams the        *)
(* records of the data file, skips up to the checkpointed record, buffers  *)
(* the rest into batches of BATCH_SIZE and hands each batch to             *)
(* process_batch, which embeds every record (generate_embedding, with      *)
(* retries), logs the records that could not be embedded, upserts the      *)
(* vectors and saves the checkpoint.                                       *)
(*                                                                         *)
(* The embedding service and the index are the environment: every call of  *)
(* embed_content returns or raises (rate limit 429, or another error) and  *)
(* every upsert is accepted or raises.                                     *)
(*                                                                         *)
(* Spec is the run on a well-formed data file with the work items of a     *)
(* batch embedded one at a time; SpecLive adds fairness, SpecKill a kill   *)
(* and a restart, SpecHappy has no failing call, SpecMalformed a malformed *)
(* data file, SpecPool the threads of the executor, SpecLog a failure log  *)
(* file of any content.                                                    *)
(***************************************************************************)
EXTENDS Integers, Sequences, FiniteSets, TLC

\* ------------------------------------------------------------------------
\* Program constants
\* ------------------------------------------------------------------------
BATCH_SIZE == 100

MAX_WORKERS == 15

\* generate_embedding: retries = 3
RETRIES == 3

\* generate_embedding: time.sleep(2 * (4 - retries))
BACKOFF_UNIT == 2

\* ------------------------------------------------------------------------
\* Bounds of the model
\* ------------------------------------------------------------------------
\* The data file holds at most MaxLen records, and at most MaxTail more
\* than a multiple of BATCH_SIZE: an empty file, a file shorter than a
\* batch, a full batch, a full batch and a tail.
MaxLen == 101

MaxTail == 1

\* The embedding service may fail only on records whose stream position is
\* within FaultSpan of a multiple of BATCH_SIZE (the last record of a full
\* batch of a fresh run, and the FaultSpan records after it); the same
\* positions are the ones a checkpoint found on disk may name.
FaultSpan == 1

\* ------------------------------------------------------------------------
\* Values
\* ------------------------------------------------------------------------
\* Python's None, as a value of last_id (a string is a sequence of digits).
None == <<-1>>

\* str(n) of an integer identifier: its decimal digits.
RECURSIVE Digits(_)
Digits(n) == IF n < 10 THEN <<n>> ELSE Append(Digits(n \div 10), n % 10)

Str(n) == Digits(n)

\* A record of data.movies is modelled by its integer "id"; its "title" is
\* a function of it. The p-th record of the stream has id IdOf(p).
IdOf(p) == p

TitleOf(movie) == <<"title", movie>>

Stream(n) == [p \in 1..n |-> IdOf(p)]

StreamLens == {n \in 0..MaxLen : n % BATCH_SIZE <= MaxTail}

\* Whether the embedding service may fail on this record (see FaultSpan).
Faultable(movie) == (movie % BATCH_SIZE) <= FaultSpan

\* The checkpoint file: absent, unparsable, a JSON value without lastId, or
\* {"lastId": <string>, "timestamp": ...} (the timestamp is never read).
NoCheckpoint == [kind |-> "absent", lastId |-> <<>>]

CorruptCheckpoint == [kind |-> "corrupt", lastId |-> <<>>]

NoLastIdCheckpoint == [kind |-> "nokey", lastId |-> <<>>]

CheckpointOf(s) == [kind |-> "ok", lastId |-> s]

\* The checkpoint files a run may find: none, a damaged one, one with an
\* empty lastId, one naming a record of the stream, one naming no record.
CheckpointFiles(ms) ==
    {NoCheckpoint, CorruptCheckpoint, NoLastIdCheckpoint, CheckpointOf(<<>>)}
    \cup {CheckpointOf(Str(p)) : p \in {q \in 1..(Len(ms) + 1) :
                                          Faultable(IdOf(q)) \/ q = Len(ms) + 1}}

\* The failure log file: absent, unparsable, or a JSON array of entries.
NoLog == [kind |-> "absent", entries |-> <<>>]

CorruptLog == [kind |-> "corrupt", entries |-> <<>>]

LogOf(es) == [kind |-> "ok", entries |-> es]

\* An entry left by an earlier run.
OldEntry == [id |-> 0, title |-> <<"title", 0>>, error |-> "Embedding generation failed after retries"]

FailureLogs == {NoLog, CorruptLog, LogOf(<<OldEntry>>)}

\* A failure log that parses to a JSON value that is no array (an object, a
\* number, a string, null): no entry can be read from it.
NotListLog == [kind |-> "notlist", entries |-> <<>>]

\* What is kept of a killed run: the records it had embedded, its last
\* batch if that was not committed, and the number of records the
\* generator had yielded.
NoRun == [embedded |-> {}, inflight |-> <<>>, pos |-> 0]

VARIABLES
    movies,             \* the records of the data file, in source order
    malformed,          \* the data file is malformed: the reader raises a
                        \* parse error after it has yielded these records
    startLog,           \* history: FAILED_LOG_FILE as this run found it
    futures,            \* executor.map: the state of each submitted work
                        \* item, when the pool's threads are modelled
    ckptFile,           \* CHECKPOINT_FILE
    failLog,            \* FAILED_LOG_FILE
    index,              \* the upserts the index accepted, in order
    pc,                 \* where the driver is
    pos,                \* records the generator has yielded
    last_id,
    skip_mode,
    current_batch,
    processed_count,
    failed_count,
    caller,             \* process_batch: called from the loop or the flush
    batch_items,        \* process_batch: its argument
    wi,                 \* executor.map: the work item being embedded
    results,            \* executor.map: the results so far, in input order
    vectors_to_upsert,
    failed_in_batch,
    retries,            \* generate_embedding: retries
    attempts,           \* generate_embedding: outcome of each call made
    delays,             \* generate_embedding: the sleeps made
    w_result,           \* generate_embedding: "running", or what it returns
    batches,            \* history: the arguments of process_batch in this run
    forwarded,          \* history: the records appended to current_batch
    events,             \* history: the checkpoint load, the calls of
                        \* process_batch, the upserts and the checkpoint
                        \* saves of this run, each with the checkpoint file
                        \* as it is after it
    embedded,           \* history: the records embedded in this run
    run,                \* 1, or 2 after the process was killed and restarted
    prev                \* history: the run that was killed

vars == <<movies, malformed, startLog, futures, ckptFile, failLog, index, pc, pos, last_id, skip_mode,
          current_batch, processed_count, failed_count, caller, batch_items,
          wi, results, vectors_to_upsert, failed_in_batch, retries,
          attempts, delays, w_result, batches, forwarded, events, embedded,
          run, prev>>

runVars == <<embedded, run, prev>>

driverVars == <<pos, last_id, skip_mode, current_batch, processed_count, failed_count>>

workerVars == <<retries, attempts, delays, w_result>>

fileVars == <<ckptFile, failLog, index>>

\* ------------------------------------------------------------------------
\* Load Checkpoint (lines 57-65) and the loop's initial values (96-99)
\* ------------------------------------------------------------------------
\* json.load raises on a damaged file and ckpt.get raises on a value that
\* is no object: both are swallowed and last_id stays None; ckpt.get gives
\* None when the key is missing.
LoadedLastId(file) == IF file.kind = "ok" THEN file.lastId ELSE None

\* Faulty variant: only the empty string counts as no checkpoint.
Truthy_NotEmpty(v) == v # <<>>

\* Faulty variant: a loaded checkpoint never turns skip mode on.
Truthy_Never(v) == FALSE

\* Python truthiness of last_id: None and "" are false.
Truthy(v) == v # None /\ v # <<>>

\* The script starts on a data file, a checkpoint file and a failure log.
Start(ms, ckpt, log) ==
    /\ movies = ms
    /\ startLog = log
    /\ futures = <<>>
    /\ ckptFile = ckpt
    /\ failLog = log
    /\ index = <<>>
    /\ pc = "init"
    /\ pos = 0
    /\ last_id = None
    /\ skip_mode = FALSE
    /\ current_batch = <<>>
    /\ processed_count = 0
    /\ failed_count = 0
    /\ caller = "none"
    /\ batch_items = <<>>
    /\ wi = 0
    /\ results = <<>>
    /\ vectors_to_upsert = <<>>
    /\ failed_in_batch = 0
    /\ retries = 0
    /\ attempts = <<>>
    /\ delays = <<>>
    /\ w_result = "idle"
    /\ batches = <<>>
    /\ forwarded = <<>>
    /\ events = <<>>
    /\ embedded = {}
    /\ run = 1
    /\ prev = NoRun

\* The data file is well formed.
Init ==
    /\ malformed = FALSE
    /\ \E n \in StreamLens :
          \E ckpt \in CheckpointFiles(Stream(n)), log \in FailureLogs :
              Start(Stream(n), ckpt, log)

LoadCheckpoint ==
    /\ pc = "init"
    /\ last_id' = LoadedLastId(ckptFile)
    /\ skip_mode' = Truthy(last_id')
    /\ pc' = "loop"
    /\ events' = Append(events, [op |-> "load", batch |-> 0, file |-> ckptFile])
    /\ UNCHANGED <<movies, malformed, startLog, futures, fileVars, pos, current_batch, processed_count,
                   failed_count, caller, batch_items, wi, results,
                   vectors_to_upsert, failed_in_batch, workerVars, batches,
                   forwarded, runVars>>

\* ------------------------------------------------------------------------
\* The main loop (lines 195-224)
\* ------------------------------------------------------------------------
\* generate_embedding starts on a work item: retries = 3 (line 109).
WorkerStart ==
    /\ retries' = RETRIES
    /\ attempts' = <<>>
    /\ delays' = <<>>
    /\ w_result' = "running"

\* process_batch(items, index) is entered (lines 145-171): the work items
\* are prepared, a new executor is made and it starts on the first one.
CallProcessBatch(items, from) ==
    /\ pc' = "embed"
    /\ caller' = from
    /\ batch_items' = items
    /\ wi' = 1
    /\ results' = <<>>
    /\ vectors_to_upsert' = <<>>
    /\ failed_in_batch' = 0
    /\ futures' = <<>>
    /\ WorkerStart
    /\ batches' = Append(batches, items)
    /\ events' = Append(events, [op |-> "call", batch |-> Len(batches'), file |-> ckptFile])

\* Faulty variant: the record's integer id is compared with the checkpoint's string
\* (no str()), which never match.
SkipModeAfter_NoStr(movie_id, lastId) == TRUE

\* Faulty variant: skip mode ends with the first record read.
SkipModeAfter_FirstRecord(movie_id, lastId) == FALSE

\* skip_mode after a record is read in skip mode (lines 204-207).
SkipModeAfter(movie_id, lastId) == movie_id # lastId

\* Faulty variant: the buffer is flushed one record late.
BatchFull_Late(buf) == Len(buf) > BATCH_SIZE

\* `if len(current_batch) >= BATCH_SIZE` (line 212).
BatchFull(buf) == Len(buf) >= BATCH_SIZE

\* Faulty variant: a buffer that is not full is not flushed after the loop.
FlushNeeded_FullOnly(buf) == Len(buf) >= BATCH_SIZE

\* `if current_batch` after the loop (line 220).
FlushNeeded(buf) == buf # <<>>

\* One iteration of `for movie in movies_generator` (lines 200-217), up to
\* the call of process_batch.
ReadMovie ==
    /\ pc = "loop"
    /\ pos < Len(movies)
    /\ pos' = pos + 1
    /\ LET movie == movies[pos + 1]
           movie_id == Str(movie)
       IN  IF skip_mode
           THEN \* last_id is a string here: str(last_id) is last_id
                /\ skip_mode' = SkipModeAfter(movie_id, last_id)
                /\ UNCHANGED <<pc, current_batch, caller, batch_items, wi,
                               results, vectors_to_upsert, failed_in_batch,
                               futures, workerVars, batches, forwarded, events>>
           ELSE /\ current_batch' = Append(current_batch, movie)
                /\ forwarded' = Append(forwarded, movie)
                /\ skip_mode' = skip_mode
                /\ IF BatchFull(current_batch')
                   THEN CallProcessBatch(current_batch', "loop")
                   ELSE UNCHANGED <<pc, caller, batch_items, wi, results,
                                    vectors_to_upsert, failed_in_batch,
                                    futures, workerVars, batches, events>>
    /\ UNCHANGED <<movies, malformed, startLog, fileVars, last_id,
                   processed_count, failed_count, runVars>>

\* The generator is exhausted: flush the final buffer (lines 219-221), or
\* go to the summary (line 226).
StreamEnd ==
    /\ pc = "loop"
    /\ pos = Len(movies)
    /\ ~malformed
    /\ IF FlushNeeded(current_batch)
       THEN CallProcessBatch(current_batch, "flush")
       ELSE /\ pc' = "done"
            /\ UNCHANGED <<caller, batch_items, wi, results,
                           vectors_to_upsert, failed_in_batch, futures,
                           workerVars, batches, events>>
    /\ UNCHANGED <<movies, malformed, startLog, fileVars, driverVars, forwarded, runVars>>

\* ------------------------------------------------------------------------
\* generate_embedding (lines 103-142)
\* ------------------------------------------------------------------------
Outcomes == {"ok", "429", "error"}

\* Faulty variant: the sleep scales with the retries left.
Backoff_RetriesLeft(r) == BACKOFF_UNIT * r

\* The sleep made after a failed call when `retries` are left (line 136).
Backoff(r) == BACKOFF_UNIT * (4 - r)

\* One pass through the loop body: the call of genai.embed_content and the
\* building of the vector object ("ok": nothing raised), or the handler of
\* whatever was raised in the try body ("429" in its text: sleep; then
\* retries -= 1) and, with no retries left, the return of (movie, None).
EmbedCall(o) ==
    /\ pc = "embed"
    /\ w_result = "running"
    /\ o # "ok" => Faultable(batch_items[wi])
    /\ attempts' = Append(attempts, o)
    /\ IF o = "ok"
       THEN /\ w_result' = "vector"
            /\ UNCHANGED <<retries, delays>>
       ELSE /\ delays' = IF o = "429" THEN Append(delays, Backoff(retries)) ELSE delays
            /\ retries' = retries - 1
            /\ w_result' = IF retries' > 0 THEN "running" ELSE "none"
    /\ UNCHANGED <<movies, malformed, startLog, futures, fileVars, pc, driverVars, caller, batch_items, wi,
                   results, vectors_to_upsert, failed_in_batch, batches,
                   forwarded, events, runVars>>

\* The vector object of a record (lines 129-133): its id is str(movie id).
VectorOf(movie) == Str(movie)

\* generate_embedding returns; executor.map keeps the result at the place
\* of its work item and the next work item is taken. After the last one
\* the executor is left (line 170-171) and the results loop starts.
\* The pool's threads are not modelled here (SpecPool has them): a result
\* depends on its own work item and the service only, and executor.map
\* yields the results in the order of the work items, so the items are
\* taken one at a time.
WorkerReturn ==
    /\ pc = "embed"
    /\ w_result \in {"vector", "none"}
    /\ LET movie == batch_items[wi]
       IN  /\ results' = Append(results,
                  [movie |-> movie,
                   vector |-> IF w_result = "vector" THEN VectorOf(movie) ELSE None])
           /\ embedded' = IF w_result = "vector" THEN embedded \cup {movie} ELSE embedded
    /\ IF wi < Len(batch_items)
       THEN /\ wi' = wi + 1
            /\ WorkerStart
            /\ UNCHANGED pc
       ELSE /\ pc' = "collect"
            /\ w_result' = "idle"
            /\ UNCHANGED <<wi, retries, attempts, delays>>
    /\ UNCHANGED <<movies, malformed, startLog, futures, fileVars, driverVars, caller, batch_items,
                   vectors_to_upsert, failed_in_batch, batches, forwarded, events,
                   run, prev>>

\* ------------------------------------------------------------------------
\* log_failure and save_checkpoint (lines 67-81)
\* ------------------------------------------------------------------------
\* The file after log_failure(item_id, title, error): the entries read (none
\* when the file is absent or unparsable), the new entry, rewritten whole.
log_failure(file, item_id, title, error) ==
    LET existing == IF file.kind = "ok" THEN file.entries ELSE <<>>
    IN  LogOf(Append(existing, [id |-> item_id, title |-> title, error |-> error]))

\* existing.append(entry) raises AttributeError when json.load gave a value
\* that is no list (line 79): nothing is written, and no caller of
\* log_failure catches it.
AppendRaises(file) == file.kind = "notlist"

\* The file after save_checkpoint(last_processed_id).
save_checkpoint(last_processed_id) == CheckpointOf(Str(last_processed_id))

\* ------------------------------------------------------------------------
\* process_batch after the executor (lines 173-192)
\* ------------------------------------------------------------------------
\* Faulty variant: one result without a vector empties the upsert.
WithVector_AllOrNothing(rs) ==
    IF \E k \in 1..Len(rs) : rs[k].vector = None THEN <<>> ELSE rs

\* The results with a vector and those without, each in input order.
WithVector(rs) == SelectSeq(rs, LAMBDA r : r.vector # None)

WithoutVector(rs) == SelectSeq(rs, LAMBDA r : r.vector = None)

\* The place of the first result without a vector.
FirstFailure(rs) ==
    CHOOSE k \in 1..Len(rs) : rs[k].vector = None /\ \A j \in 1..(k - 1) : rs[j].vector # None

\* The failure log after the calls of log_failure the results loop makes,
\* one for each result without a vector, in order (line 178).
RECURSIVE LogFailures(_, _)
LogFailures(file, failed) ==
    IF failed = <<>> THEN file
    ELSE LogFailures(log_failure(file, Head(failed).movie, TitleOf(Head(failed).movie),
                                 "Embedding generation failed after retries"),
                     Tail(failed))

\* `for movie, vector in results` (lines 173-178): a vector is appended to
\* vectors_to_upsert, a None is counted and logged; then the test
\* `if vectors_to_upsert` (line 180).
\* When log_failure raises, at the first result without a vector, the
\* exception leaves process_batch and the script: the run is aborted.
CollectResults ==
    /\ pc = "collect"
    /\ IF WithoutVector(results) # <<>> /\ AppendRaises(failLog)
       THEN /\ vectors_to_upsert' = [k \in 1..(FirstFailure(results) - 1) |-> results[k].vector]
            /\ failed_in_batch' = 1
            /\ failLog' = failLog
            /\ pc' = "aborted"
       ELSE /\ vectors_to_upsert' = [k \in 1..Len(WithVector(results)) |-> WithVector(results)[k].vector]
            /\ failed_in_batch' = Len(WithoutVector(results))
            /\ failLog' = LogFailures(failLog, WithoutVector(results))
            /\ pc' = IF vectors_to_upsert' # <<>> THEN "upsert" ELSE "return"
    /\ UNCHANGED <<movies, malformed, startLog, futures, ckptFile, index, driverVars, caller, batch_items, wi,
                   results, workerVars, batches, forwarded, events, runVars>>

\* index_obj.upsert(vectors=vectors_to_upsert) is accepted (line 182).
UpsertOk ==
    /\ pc = "upsert"
    /\ index' = Append(index, vectors_to_upsert)
    /\ events' = Append(events, [op |-> "upsert_ok", batch |-> Len(batches), file |-> ckptFile])
    /\ pc' = "save"
    /\ UNCHANGED <<movies, malformed, startLog, futures, ckptFile, failLog, driverVars, caller, batch_items, wi,
                   results, vectors_to_upsert, failed_in_batch, workerVars,
                   batches, forwarded, runVars>>

\* Faulty variant: the checkpoint is saved after the handler too.
UpsertRaises_ThenSave ==
    /\ pc = "upsert"
    /\ events' = Append(events, [op |-> "upsert_fail", batch |-> Len(batches), file |-> ckptFile])
    /\ pc' = "save"
    /\ UNCHANGED <<movies, malformed, startLog, futures, fileVars, driverVars, caller, batch_items, wi,
                   results, vectors_to_upsert, failed_in_batch, workerVars,
                   batches, forwarded, runVars>>

\* Faulty variant: no handler, the error of the upsert ends the run.
UpsertRaises_Uncaught ==
    /\ pc = "upsert"
    /\ events' = Append(events, [op |-> "upsert_fail", batch |-> Len(batches), file |-> ckptFile])
    /\ pc' = "aborted"
    /\ UNCHANGED <<movies, malformed, startLog, futures, fileVars, driverVars, caller, batch_items, wi,
                   results, vectors_to_upsert, failed_in_batch, workerVars,
                   batches, forwarded, runVars>>

\* index_obj.upsert raises: the handler prints (lines 188-189).
UpsertRaises ==
    /\ pc = "upsert"
    /\ events' = Append(events, [op |-> "upsert_fail", batch |-> Len(batches), file |-> ckptFile])
    /\ pc' = "return"
    /\ UNCHANGED <<movies, malformed, startLog, futures, fileVars, driverVars, caller, batch_items, wi,
                   results, vectors_to_upsert, failed_in_batch, workerVars,
                   batches, forwarded, runVars>>

\* Faulty variant: the first record of the batch is checkpointed.
last_movie_in_batch_First(items) == items[1]

\* Faulty variant: the last record that was embedded is checkpointed (what the
\* comment of line 183 says).
last_movie_in_batch_Upserted(items) == WithVector(results)[Len(WithVector(results))].movie

\* The record whose id is checkpointed (line 185).
last_movie_in_batch(items) == items[Len(items)]

\* save_checkpoint(last_movie_in_batch.get("id")) (lines 185-186).
SaveCheckpoint ==
    /\ pc = "save"
    /\ ckptFile' = save_checkpoint(last_movie_in_batch(batch_items))
    /\ events' = Append(events, [op |-> "save", batch |-> Len(batches), file |-> ckptFile'])
    /\ pc' = "return"
    /\ UNCHANGED <<movies, malformed, startLog, futures, failLog, index, driverVars, caller, batch_items, wi,
                   results, vectors_to_upsert, failed_in_batch, workerVars,
                   batches, forwarded, runVars>>

\* process_batch returns (line 192) and the caller adds the counts: in the
\* loop (lines 213-217, where the buffer is emptied) or after it (221-224).
ReturnBatch ==
    /\ pc = "return"
    /\ processed_count' = processed_count + Len(vectors_to_upsert)
    /\ failed_count' = failed_count + failed_in_batch
    /\ IF caller = "loop"
       THEN /\ current_batch' = <<>>
            /\ pc' = "loop"
       ELSE /\ current_batch' = current_batch
            /\ pc' = "done"
    /\ UNCHANGED <<movies, malformed, startLog, futures, fileVars, pos, last_id, skip_mode, caller, batch_items,
                   wi, results, vectors_to_upsert, failed_in_batch, workerVars,
                   batches, forwarded, events, runVars>>

Next ==
    \/ LoadCheckpoint
    \/ ReadMovie
    \/ StreamEnd
    \/ \E o \in Outcomes : EmbedCall(o)
    \/ WorkerReturn
    \/ CollectResults
    \/ UpsertOk
    \/ UpsertRaises
    \/ SaveCheckpoint
    \/ ReturnBatch

Spec == Init /\ [][Next]_vars

\* The script runs on: every call of the embedding service and of the index
\* returns or raises in the end, and the interpreter takes the next step.
SpecLive == Spec /\ WF_vars(Next)

\* ------------------------------------------------------------------------
\* Interruption and resumed run
\* ------------------------------------------------------------------------
\* The last batch handed to process_batch, unless its checkpoint has been
\* saved: the batch that is in flight, or was and did not get committed.
Uncommitted ==
    IF batches # <<>> /\ events[Len(events)].op # "save"
    THEN batches[Len(batches)]
    ELSE <<>>

\* The process is killed, anywhere between its steps: what is on disk and
\* in the index stays, the rest is lost.
Kill ==
    /\ run = 1
    /\ pc \notin {"done", "killed"}
    /\ pc' = "killed"
    /\ prev' = [embedded |-> embedded,
                inflight |-> Uncommitted,
                pos |-> pos]
    /\ UNCHANGED <<movies, malformed, startLog, futures, fileVars, driverVars, caller, batch_items, wi, results,
                   vectors_to_upsert, failed_in_batch, workerVars, batches,
                   forwarded, events, embedded, run>>

\* The script is started again on the same data file, with the checkpoint
\* file, the failure log and the index as the killed run left them.
Restart ==
    /\ pc = "killed"
    /\ run' = 2
    /\ pc' = "init"
    /\ pos' = 0
    /\ last_id' = None
    /\ skip_mode' = FALSE
    /\ current_batch' = <<>>
    /\ processed_count' = 0
    /\ failed_count' = 0
    /\ caller' = "none"
    /\ batch_items' = <<>>
    /\ wi' = 0
    /\ results' = <<>>
    /\ vectors_to_upsert' = <<>>
    /\ failed_in_batch' = 0
    /\ retries' = 0
    /\ attempts' = <<>>
    /\ delays' = <<>>
    /\ w_result' = "idle"
    /\ batches' = <<>>
    /\ forwarded' = <<>>
    /\ events' = <<>>
    /\ embedded' = {}
    /\ startLog' = failLog
    /\ UNCHANGED <<movies, malformed, futures, fileVars, prev>>

\* A first run that starts without checkpoint and failure log.
InitKill ==
    /\ malformed = FALSE
    /\ \E n \in StreamLens : Start(Stream(n), NoCheckpoint, NoLog)

NextKill ==
    \/ Next
    \/ Kill
    \/ Restart

SpecKill == InitKill /\ [][NextKill]_vars

\* ------------------------------------------------------------------------
\* The run in which every embedding call and every upsert succeeds
\* ------------------------------------------------------------------------
\* The longest data file of these runs.
MaxHappyLen == 250

InitHappy ==
    /\ malformed = FALSE
    /\ \E n \in 1..MaxHappyLen :
          \E log \in {NoLog, LogOf(<<OldEntry>>)} : Start(Stream(n), NoCheckpoint, log)

NextHappy ==
    \/ LoadCheckpoint
    \/ ReadMovie
    \/ StreamEnd
    \/ EmbedCall("ok")
    \/ WorkerReturn
    \/ CollectResults
    \/ UpsertOk
    \/ SaveCheckpoint
    \/ ReturnBatch

SpecHappy == InitHappy /\ [][NextHappy]_vars

\* ------------------------------------------------------------------------
\* The run on a malformed data file
\* ------------------------------------------------------------------------
\* ijson.items parses the file while the loop iterates (lines 196, 200): on
\* a malformed document the generator raises its parse error from the
\* `for` statement, after the records it had yielded (those of `movies`,
\* which lie before the malformed place) went through the loop body. No
\* handler catches it: the buffer is not flushed and the script ends.
ParseError ==
    /\ pc = "loop"
    /\ pos = Len(movies)
    /\ malformed
    /\ pc' = "aborted"
    /\ UNCHANGED <<movies, malformed, startLog, futures, fileVars, driverVars,
                   caller, batch_items, wi, results, vectors_to_upsert,
                   failed_in_batch, workerVars, batches, forwarded, events,
                   runVars>>

\* The data file is well formed, or malformed after some records.
InitMalformed ==
    /\ malformed \in BOOLEAN
    /\ \E n \in StreamLens :
          \E ckpt \in {NoCheckpoint, CheckpointOf(Str(IdOf(1)))} :
              Start(Stream(n), ckpt, NoLog)

NextMalformed ==
    \/ Next
    \/ ParseError

SpecMalformed == InitMalformed /\ [][NextMalformed]_vars

\* ------------------------------------------------------------------------
\* The run with the threads of the pool (lines 170-171)
\* ------------------------------------------------------------------------
\* executor.map submits every work item to the pool of at most MAX_WORKERS
\* threads and leaving the `with` block waits for all of them
\* (shutdown(wait=True)). A submitted work item is queued, then in
\* generate_embedding on one of the threads with some retries left, then
\* done with a vector or with None.
Queued == [st |-> "queued", retries |-> 0]

Running(r) == [st |-> "running", retries |-> r]

Returned(st) == [st |-> st, retries |-> 0]

\* The work items on which generate_embedding is running.
InProgress == {k \in 1..Len(futures) : futures[k].st = "running"}

\* The work items that wait in the pool's queue.
InQueue == {k \in 1..Len(futures) : futures[k].st = "queued"}

\* executor.map(generate_embedding, work_items): every item is submitted.
PoolSubmit ==
    /\ pc = "embed"
    /\ futures = <<>>
    /\ futures' = [k \in 1..Len(batch_items) |-> Queued]
    /\ UNCHANGED <<movies, malformed, startLog, fileVars, pc, driverVars, caller,
                   batch_items, wi, results, vectors_to_upsert, failed_in_batch,
                   workerVars, batches, forwarded, events, runVars>>

\* Faulty variant: the pool starts a thread for every work item.
ThreadFree_Unbounded == TRUE

\* The pool has a thread that is not running a work item: it has at most
\* max_workers = MAX_WORKERS threads, each on one work item at a time.
ThreadFree == Cardinality(InProgress) < MAX_WORKERS

\* A thread takes the oldest work item of the queue and enters
\* generate_embedding: retries = 3.
PoolTake ==
    /\ InQueue # {}
    /\ ThreadFree
    /\ LET k == CHOOSE i \in InQueue : \A j \in InQueue : i <= j
       IN  futures' = [futures EXCEPT ![k] = Running(RETRIES)]
    /\ UNCHANGED <<movies, malformed, startLog, fileVars, pc, driverVars, caller,
                   batch_items, wi, results, vectors_to_upsert, failed_in_batch,
                   workerVars, batches, forwarded, events, runVars>>

\* The calls in progress whose answer may come now: the call on a record
\* the service may fail on takes any time (it may be retried, after
\* sleeps); of the other calls, the oldest is answered first.
MayAnswer(k) ==
    \/ Faultable(batch_items[k])
    \/ \A j \in InProgress : j < k => Faultable(batch_items[j])

\* Faulty variant: the worker itself logs the record it gives up on.
PoolEmbedCall_Logs(k, o) ==
    /\ k \in InProgress
    /\ MayAnswer(k)
    /\ o # "ok" => Faultable(batch_items[k])
    /\ IF o = "ok"
       THEN /\ futures' = [futures EXCEPT ![k] = Returned("vector")]
            /\ embedded' = embedded \cup {batch_items[k]}
            /\ failLog' = failLog
       ELSE /\ futures' = [futures EXCEPT ![k] =
                              IF futures[k].retries - 1 > 0
                              THEN Running(futures[k].retries - 1)
                              ELSE Returned("none")]
            /\ embedded' = embedded
            /\ failLog' = IF futures[k].retries - 1 > 0 THEN failLog
                          ELSE log_failure(failLog, batch_items[k], TitleOf(batch_items[k]),
                                           "Embedding generation failed after retries")
    /\ UNCHANGED <<movies, malformed, startLog, ckptFile, index, pc, driverVars, caller,
                   batch_items, wi, results, vectors_to_upsert, failed_in_batch,
                   workerVars, batches, forwarded, events, run, prev>>

\* One pass through the loop body of generate_embedding on a thread of the
\* pool, as EmbedCall, and its return when the loop is left.
PoolEmbedCall(k, o) ==
    /\ k \in InProgress
    /\ MayAnswer(k)
    /\ o # "ok" => Faultable(batch_items[k])
    /\ IF o = "ok"
       THEN /\ futures' = [futures EXCEPT ![k] = Returned("vector")]
            /\ embedded' = embedded \cup {batch_items[k]}
       ELSE /\ futures' = [futures EXCEPT ![k] =
                              IF futures[k].retries - 1 > 0
                              THEN Running(futures[k].retries - 1)
                              ELSE Returned("none")]
            /\ embedded' = embedded
    /\ UNCHANGED <<movies, malformed, startLog, fileVars, pc, driverVars, caller,
                   batch_items, wi, results, vectors_to_upsert, failed_in_batch,
                   workerVars, batches, forwarded, events, run, prev>>

\* Every work item has returned.
AllReturned == \A k \in 1..Len(futures) : futures[k].st \in {"vector", "none"}

\* Leaving the `with` block returns when all threads have finished.
BarrierOpen == AllReturned

\* The `with` block is left (line 171): results yields, in the order of
\* the work items, what generate_embedding returned for each.
PoolJoin ==
    /\ pc = "embed"
    /\ futures # <<>>
    /\ BarrierOpen
    /\ results' = [k \in 1..Len(futures) |->
                      [movie |-> batch_items[k],
                       vector |-> IF futures[k].st = "vector"
                                  THEN VectorOf(batch_items[k]) ELSE None]]
    /\ pc' = "collect"
    /\ UNCHANGED <<movies, malformed, startLog, futures, fileVars, driverVars,
                   caller, batch_items, wi, vectors_to_upsert, failed_in_batch,
                   workerVars, batches, forwarded, events, runVars>>

\* In these runs the work items are embedded by the threads of the pool
\* and not one at a time: wi, retries, attempts, delays and w_result stay
\* as process_batch set them.
\* The data file holds a tail of MaxTail records, after a full batch or alone.
InitPool ==
    /\ malformed = FALSE
    /\ \E n \in {m \in StreamLens : m % BATCH_SIZE = MaxTail} :
          Start(Stream(n), NoCheckpoint, NoLog)

NextPool ==
    \/ LoadCheckpoint
    \/ ReadMovie
    \/ StreamEnd
    \/ PoolSubmit
    \/ PoolTake
    \/ \E k \in InProgress, o \in Outcomes : PoolEmbedCall(k, o)
    \/ PoolJoin
    \/ CollectResults
    \/ UpsertOk
    \/ UpsertRaises
    \/ SaveCheckpoint
    \/ ReturnBatch

SpecPool == InitPool /\ [][NextPool]_vars

\* ------------------------------------------------------------------------
\* The run on whatever the failure log file holds
\* ------------------------------------------------------------------------
InitLog ==
    /\ malformed = FALSE
    /\ \E n \in StreamLens :
          \E log \in FailureLogs \cup {NotListLog} : Start(Stream(n), NoCheckpoint, log)

SpecLog == InitLog /\ [][Next]_vars

\* ------------------------------------------------------------------------
\* Properties
\* ------------------------------------------------------------------------
\* The positions of the failure log's entries for a record.
EntriesFor(movie) == {k \in 1..Len(failLog.entries) : failLog.entries[k].id = movie}

\* The record's vector is in an upsert the index accepted.
Committed(movie) ==
    \E b \in 1..Len(index) : \E k \in 1..Len(index[b]) : index[b][k] = Str(movie)

\* The position in the stream of the record the loaded checkpoint names
\* (0: no checkpoint loaded, or it names no record).
CheckpointPos ==
    IF \E p \in 1..Len(movies) : Str(movies[p]) = last_id
    THEN CHOOSE p \in 1..Len(movies) : Str(movies[p]) = last_id
    ELSE 0

LastEvent == events[Len(events)]

\* The index in events of the call of process_batch on batch b.
CallOf(b) == CHOOSE i \in 1..Len(events) : events[i].op = "call" /\ events[i].batch = b

\* C1: no silent loss. When the run is done, every record that was
\* forwarded to the batch coordinator is in an upsert the index accepted or
\* has exactly one entry in the failure log, whatever the embedding and
\* upsert outcomes were.
C1_NoSilentLoss ==
    pc = "done" =>
        \A i \in 1..Len(forwarded) :
            \/ Committed(forwarded[i])
            \/ Cardinality(EntriesFor(forwarded[i])) = 1

\* The checkpoint file the run found when it started.
StartFile == events[1].file

\* The position in the stream of the record that file names (0: none).
ResumePos ==
    IF StartFile.kind = "ok" /\ \E p \in 1..Len(movies) : Str(movies[p]) = StartFile.lastId
    THEN CHOOSE p \in 1..Len(movies) : Str(movies[p]) = StartFile.lastId
    ELSE 0

\* The records of the stream from position a to position b.
Records(a, b) == IF a <= b THEN SubSeq(movies, a, b) ELSE <<>>

\* C2: resume correctness. In a run started with a checkpoint that names a
\* record of the stream, the records forwarded to the batch coordinator are
\* at every moment the records read so far that lie strictly after the
\* checkpointed record, in source order (so at the end: all of them, none
\* repeated, none skipped, the checkpointed one not among them), and skip
\* mode is on exactly until the checkpointed record has been read.
C2_ResumeCorrect ==
    (events # <<>> /\ ResumePos # 0) =>
        /\ skip_mode = (pos < ResumePos)
        /\ forwarded = Records(ResumePos + 1, pos)
        /\ pc = "done" => forwarded = Records(ResumePos + 1, Len(movies))

C2_Witness ==
    /\ pc = "done"
    /\ ResumePos = 1
    /\ Len(forwarded) = BATCH_SIZE
    /\ forwarded[1] = movies[2]

EmbeddedOf(b) == {k \in 1..Len(batches[b]) : batches[b][k] \in embedded}

\* C4: batch commit failure isolation. When the upsert of a batch raises,
\* the checkpoint file is as it was when the batch was started, and stays
\* so until the next batch; no failure log entry exists for a record of the
\* batch that was embedded; the run goes on: the next thing is
\* the call of process_batch on the records that follow, or the end of the
\* run when none follow.
C4_CommitFailureIsolation ==
    \A i \in 1..Len(events) :
        events[i].op = "upsert_fail" =>
            LET b == events[i].batch
            IN  /\ events[i].file = events[CallOf(b)].file
                /\ \A k \in EmbeddedOf(b) : EntriesFor(batches[b][k]) = {}
                /\ IF i < Len(events)
                   THEN /\ events[i + 1].op = "call"
                        /\ events[i + 1].batch = b + 1
                        /\ events[i + 1].file = events[i].file
                        /\ batches[b + 1][1] = forwarded[b * BATCH_SIZE + 1]
                   ELSE /\ pc \in {"return", "loop", "done"}
                        /\ ckptFile = events[i].file
                        /\ pc = "done" => Len(forwarded) = (b - 1) * BATCH_SIZE + Len(batches[b])

\* The upsert of the first batch raised, the second batch was processed and
\* committed, and the run ended.
C4_Witness ==
    /\ pc = "done"
    /\ Len(events) >= 4
    /\ \E i \in 1..(Len(events) - 1) : events[i].op = "upsert_fail" /\ events[i].batch = 1
    /\ Len(batches) = 2
    /\ LastEvent.op = "save"

Range(seq) == {seq[k] : k \in 1..Len(seq)}

\* C6: interruption recovery. In the run started after the process was
\* killed, every record the killed run had not yet read is forwarded, and
\* a record this run embeds that the killed run had embedded too belongs
\* to the one batch that was in flight, not yet committed, when the
\* process was killed.
C6_InterruptionRecovery ==
    run = 2 =>
        /\ pc = "done" =>
              \A p \in (prev.pos + 1)..Len(movies) : movies[p] \in Range(forwarded)
        /\ \A m \in embedded \cap prev.embedded : m \in Range(prev.inflight)

\* The batches in the order they were handed to process_batch, joined.
RECURSIVE Flatten(_)
Flatten(bs) == IF bs = <<>> THEN <<>> ELSE Head(bs) \o Flatten(Tail(bs))

\* C7: batching determinism. The batches handed to process_batch, followed
\* by the buffer being filled, are the forwarded records in input order;
\* every batch has between 1 and 100 records, every batch but the last has
\* exactly 100, a shorter batch is the flush made at the end of the stream,
\* and the buffer never holds 100 records between two reads.
C7_BatchingDeterminism ==
    /\ forwarded = Flatten(batches) \o (IF pc = "loop" THEN current_batch ELSE <<>>)
    /\ \A b \in 1..Len(batches) :
          /\ Len(batches[b]) >= 1
          /\ Len(batches[b]) <= 100
          /\ b < Len(batches) => Len(batches[b]) = 100
          /\ Len(batches[b]) < 100 => (caller = "flush" /\ pos = Len(movies))
    /\ pc = "loop" => Len(current_batch) < 100
    /\ caller = "flush" => pos = Len(movies)
    /\ pc = "done" => forwarded = Flatten(batches)

C7_Witness ==
    /\ pc = "done"
    /\ Len(batches) = 2
    /\ Len(batches[1]) = 100
    /\ Len(batches[2]) = 1
    /\ Len(forwarded) = 101

\* The delays the claim prescribes for a sequence of call outcomes: 2k
\* seconds after the k-th call when it signals 429, none otherwise.
RateLimitedCalls(as) == SelectSeq([k \in 1..Len(as) |-> k], LAMBDA k : as[k] = "429")

\* C8: retry bound and backoff. For one record the embedding service is
\* called at most 3 times; no call follows a successful one, which returns
\* the vector; (movie, None) is returned exactly after 3 failed calls, and
\* every result carries the record it was computed for; the sleeps made
\* are 2k seconds after the k-th call for every call that signalled 429
\* and none for other failures, so they never decrease.
C8_RetryBound ==
    /\ Len(attempts) <= 3
    /\ \A k \in 1..(Len(attempts) - 1) : attempts[k] # "ok"
    /\ w_result = "vector" => attempts[Len(attempts)] = "ok"
    /\ w_result = "none" => (Len(attempts) = 3 /\ attempts[3] # "ok")
    /\ w_result = "running" => (Len(attempts) < 3 /\ \A k \in 1..Len(attempts) : attempts[k] # "ok")
    /\ delays = [j \in 1..Len(RateLimitedCalls(attempts)) |-> 2 * RateLimitedCalls(attempts)[j]]
    /\ \A j \in 1..(Len(delays) - 1) : delays[j] <= delays[j + 1]
    /\ \A k \in 1..Len(results) :
          /\ results[k].movie = batch_items[k]
          /\ results[k].vector # None => results[k].vector = Str(batch_items[k])

\* A record was rate limited three times and given up.
C8_Witness ==
    /\ w_result = "none"
    /\ attempts = <<"429", "429", "429">>
    /\ delays = <<2, 4, 6>>

\* C9: corrupt checkpoint tolerance. When the checkpoint file found is
\* unparsable, or holds no lastId or an empty one, no checkpoint is loaded,
\* skip mode is off and every record read is forwarded, from the first.
C9_CorruptCheckpointTolerance ==
    (events # <<>> /\ (StartFile.kind \in {"corrupt", "nokey"}
                       \/ (StartFile.kind = "ok" /\ StartFile.lastId = <<>>))) =>
        /\ last_id \in {None, <<>>}
        /\ StartFile.kind # "ok" => last_id = None
        /\ ~skip_mode
        /\ forwarded = Records(1, pos)
        /\ pc \in {"loop", "embed", "collect", "upsert", "save", "return", "done"}

C9_Witness ==
    /\ pc = "done"
    /\ StartFile.kind = "corrupt"
    /\ Len(movies) > BATCH_SIZE
    /\ forwarded = movies
    /\ Len(index) = 2

\* C10: end-to-end happy path. With no checkpoint and every embedding call
\* and upsert succeeding, a run over N records ends with ceil(N/100)
\* accepted upserts of 100 vectors each but the last, which has the rest;
\* the checkpoint names the last record of the stream; the failure log has
\* no entry for a record of the stream; processed = N and failed = 0. For
\* 250 records: upserts of 100, 100 and 50, checkpoint "250".
C10_HappyPath ==
    pc = "done" =>
        LET n == Len(movies)
            nb == (n + 99) \div 100
        IN  /\ Len(index) = nb
            /\ \A b \in 1..nb : Len(index[b]) = IF b < nb THEN 100 ELSE n - 100 * (nb - 1)
            /\ Flatten(index) = [p \in 1..n |-> Str(movies[p])]
            /\ ckptFile.kind = "ok"
            /\ ckptFile.lastId = Str(movies[n])
            /\ failLog \in {NoLog, LogOf(<<OldEntry>>)}
            /\ processed_count = n
            /\ failed_count = 0
            /\ n = 250 =>
                  /\ <<Len(index[1]), Len(index[2]), Len(index[3])>> = <<100, 100, 50>>
                  /\ ckptFile.lastId = <<2, 5, 0>>

C10_Witness ==
    /\ pc = "done"
    /\ Len(movies) = 250
    /\ Len(index) = 3
    /\ Len(index[3]) = 50
    /\ processed_count = 250

\* The entries log_failure writes for results without a vector, in order.
EntriesOf(failed) ==
    [k \in 1..Len(failed) |->
        [id |-> failed[k].movie, title |-> TitleOf(failed[k].movie),
         error |-> "Embedding generation failed after retries"]]

\* C11: the failure log is append-only. Every call of log_failure (the
\* results loop makes one for each result without a vector) leaves the
\* entries already in the file in place and in order and adds one entry at
\* the end; no other step of a run, its start included, changes the file;
\* so the number of entries never decreases, whatever the file found on
\* disk holds.
C11_FailureLogAppendOnly ==
    [][/\ (pc = "collect" /\ WithoutVector(results) # <<>>) =>
            /\ failLog'.kind = "ok"
            /\ failLog'.entries = failLog.entries \o EntriesOf(WithoutVector(results))
       /\ (pc = "collect" /\ WithoutVector(results) = <<>>) => failLog' = failLog
       /\ pc # "collect" => failLog' = failLog
       /\ Len(failLog'.entries) >= Len(failLog.entries)]_vars

\* C12: bounded barrier concurrency. At every moment at most 15 embedding
\* calls are in progress, all on work items of the batch process_batch was
\* last called on; while a work item of the batch is queued or in progress
\* the driver is inside the executor block and reads no record, starts no
\* batch, makes no upsert and writes neither the checkpoint nor the failure
\* log; it goes on with the results of all the work items.
C12_BoundedBarrier ==
    /\ [](/\ Cardinality(InProgress) <= 15
          /\ futures # <<>> =>
                /\ batches # <<>>
                /\ batch_items = batches[Len(batches)]
                /\ Len(futures) = Len(batch_items)
          /\ (InProgress \cup InQueue) # {} => pc = "embed"
          /\ pc \in {"collect", "upsert", "save", "return"} =>
                /\ futures # <<>>
                /\ AllReturned
                /\ Len(results) = Len(batch_items))
    /\ [][pc = "embed" =>
            UNCHANGED <<pos, current_batch, batches, batch_items, index,
                        ckptFile, failLog>>]_vars

\* Fifteen calls are in progress and the rest of a full batch waits.
C12_Witness ==
    /\ Cardinality(InProgress) = 15
    /\ InQueue # {}
    /\ Len(batch_items) = BATCH_SIZE
    /\ futures[1].st = "running"

\* The upserts attempted for batch b, accepted or not.
UpsertsOf(b) ==
    {i \in 1..Len(events) : events[i].batch = b /\ events[i].op \in {"upsert_ok", "upsert_fail"}}

\* C13: per-record failure isolation. When some but not all records of a
\* batch end without a vector, each of them has one failure log entry with
\* its id, its title and the error text; the vectors of all the others, in
\* input order, are what the batch's one upsert is called with (and what
\* the index holds when it accepts); the run is not aborted and goes on to
\* the return of process_batch.
C13_PerRecordFailureIsolation ==
    /\ pc # "aborted"
    /\ (pc \in {"upsert", "save", "return"}
        /\ failed_in_batch > 0 /\ failed_in_batch < Len(batch_items)) =>
          /\ \A k \in 1..Len(results) :
                results[k].vector = None =>
                    /\ Cardinality(EntriesFor(results[k].movie)) = 1
                    /\ \A e \in EntriesFor(results[k].movie) :
                          /\ failLog.entries[e].title = TitleOf(results[k].movie)
                          /\ failLog.entries[e].error = "Embedding generation failed after retries"
          /\ Len(vectors_to_upsert) = Len(batch_items) - failed_in_batch
          /\ \A k \in 1..Len(results) :
                results[k].vector # None =>
                    \E j \in 1..Len(vectors_to_upsert) :
                        /\ vectors_to_upsert[j] = Str(batch_items[k])
                        /\ j <= k /\ k - j <= failed_in_batch
          /\ Cardinality(UpsertsOf(Len(batches))) = IF pc = "upsert" THEN 0 ELSE 1
          /\ (pc \in {"save", "return"} /\ LastEvent.op # "upsert_fail") =>
                index[Len(index)] = vectors_to_upsert

\* One record of a full batch failed and the other 99 were upserted.
C13_Witness ==
    /\ pc = "return"
    /\ Len(batch_items) = BATCH_SIZE
    /\ failed_in_batch = 1
    /\ results[BATCH_SIZE].vector = None
    /\ Len(index) = 1
    /\ Len(index[1]) = BATCH_SIZE - 1
    /\ Cardinality(EntriesFor(batch_items[BATCH_SIZE])) = 1

\* C14: a malformed source is fatal without partial state mutation. When
\* the reader raises its parse error, wherever in the document the
\* malformed place is, the run is aborted before any processing:
\* process_batch has not been called, no upsert has been made, and the
\* checkpoint file and the failure log are as the run found them.
C14_MalformedSourceFatal ==
    (malformed /\ pc = "aborted") =>
        /\ batches = <<>>
        /\ index = <<>>
        /\ ckptFile = StartFile
        /\ failLog = startLog

\* C15: checkpoint never found. When a checkpoint identifier was loaded
\* that no record of the stream has, the driver is in skip mode from the
\* load to the end of the run: it only reads records and ends, no record
\* is forwarded, process_batch is never called, nothing is upserted, the
\* checkpoint file and the failure log stay as they were found, both
\* counters are 0 at the end, and the run is not aborted.
C15_CheckpointNeverFound ==
    (/\ events # <<>>
     /\ StartFile.kind = "ok"
     /\ StartFile.lastId # <<>>
     /\ \A p \in 1..Len(movies) : Str(movies[p]) # StartFile.lastId) =>
        /\ last_id = StartFile.lastId
        /\ skip_mode
        /\ pc \in {"loop", "done"}
        /\ pc = "done" => pos = Len(movies)
        /\ forwarded = <<>>
        /\ current_batch = <<>>
        /\ batches = <<>>
        /\ Len(events) = 1
        /\ index = <<>>
        /\ ckptFile = StartFile
        /\ failLog = startLog
        /\ processed_count = 0
        /\ failed_count = 0

\* A run over 101 records ended in skip mode.
C15_Witness ==
    /\ pc = "done"
    /\ skip_mode
    /\ Len(movies) = BATCH_SIZE + 1
    /\ pos = Len(movies)
    /\ last_id = Str(IdOf(Len(movies) + 1))

\* The position in the stream of the record a checkpoint file names (0: it
\* names none).
FilePos(file) ==
    IF file.kind = "ok" /\ \E p \in 1..Len(movies) : Str(movies[p]) = file.lastId
    THEN CHOOSE p \in 1..Len(movies) : Str(movies[p]) = file.lastId
    ELSE 0

\* The position in the stream of a record.
PosOf(movie) == CHOOSE p \in 1..Len(movies) : movies[p] = movie

\* C16: a commit failure implies a retry on the next run. Once the upsert
\* of a batch has failed, the checkpoint on disk names, from then on and so
\* wherever the run ends or is interrupted, a record before the first
\* record of that batch (or none), so that a resumed run forwards the
\* records of the failed batch again.
C16_CommitFailureImpliesRetry ==
    \A i \in 1..Len(events) :
        events[i].op = "upsert_fail" =>
            FilePos(ckptFile) < PosOf(batches[events[i].batch][1])

\* The number of vectors in the upserts the index accepted in this run.
CommittedUnits == Len(Flatten(index))

\* C17: the run counters are accurate. Whenever the driver is between two
\* batches, and when the run is done, processed_count is the number of
\* vectors the index accepted in this run and failed_count is the number
\* of entries this run added to the failure log: each flushed batch adds
\* its committed and its failed number.
C17_CountersAccurate ==
    pc \in {"loop", "done"} =>
        /\ processed_count = CommittedUnits
        /\ failed_count = Len(failLog.entries) - Len(startLog.entries)

\* C18: single-writer persistence. A step that writes the checkpoint file
\* or the failure log is a step of the driver made while no work item is
\* queued or in progress (the results loop, or the save after the upsert),
\* and it writes one of the two files; a step of a worker changes the
\* state of its own work item and nothing else (the set of embedded
\* records is history); the results loop adds one entry for each result
\* without a vector to the entries the file had, so no entry is lost.
C18_SingleWriter ==
    [][/\ (ckptFile' # ckptFile \/ failLog' # failLog) =>
            /\ pc \in {"collect", "save"}
            /\ futures' = futures
            /\ futures # <<>>
            /\ (InProgress \cup InQueue) = {}
            /\ ckptFile' = ckptFile \/ failLog' = failLog
       /\ (futures' # futures /\ futures # <<>> /\ futures' # <<>>) =>
            /\ \E k \in 1..Len(futures) :
                  /\ futures[k].st \in {"queued", "running"}
                  /\ futures' = [futures EXCEPT ![k] = futures'[k]]
            /\ UNCHANGED <<fileVars, pc, driverVars, caller, batch_items, results,
                           vectors_to_upsert, failed_in_batch, batches,
                           forwarded, events>>
       /\ (pc = "collect" /\ pc' # "collect") =>
            Len(failLog'.entries) = Len(failLog.entries)
                + Cardinality({k \in 1..Len(futures) : futures[k].st = "none"})]_vars

\* The driver has written the failure log and the checkpoint of a full
\* batch that the pool embedded, one of whose records failed.
C18_Witness ==
    /\ pc = "return"
    /\ futures # <<>>
    /\ Len(futures) = BATCH_SIZE
    /\ futures[1].st = "none"
    /\ Len(failLog.entries) = 1
    /\ ckptFile = CheckpointOf(Str(IdOf(BATCH_SIZE)))

\* The state of the run driver: 0 INIT (before the checkpoint is loaded),
\* 1 SKIPPING (in the loop, in skip mode), 2 STREAMING (in the loop, or in
\* a batch flushed from it), 3 DRAINING (in the final flush), 4 DONE.
DriverState ==
    CASE pc = "init" -> 0
      [] pc = "done" -> 4
      [] pc = "aborted" -> 5
      [] pc = "loop" /\ skip_mode -> 1
      [] pc # "loop" /\ caller = "flush" -> 3
      [] OTHER -> 2

\* C19: termination. Every run over a finite stream, whatever the embedding
\* service and the index answer, reaches DONE; the driver's state never
\* goes back in the order INIT, SKIPPING, STREAMING, DRAINING, DONE and is
\* SKIPPING only when a checkpoint was loaded; generate_embedding makes at
\* most 3 calls and returns, and the executor block of every batch is left.
C19_Termination ==
    /\ <>(pc = "done")
    /\ [][DriverState' >= DriverState]_vars
    /\ [](DriverState = 1 => Truthy(LoadedLastId(StartFile)))
    /\ [](DriverState <= 4 /\ Len(attempts) <= 3)
    /\ (w_result = "running") ~> (w_result \in {"vector", "none"})
    /\ (pc = "embed") ~> (pc = "collect")

\* A run that skipped a full batch of records, streamed the next record and
\* drained it in the final flush, giving it up after three calls, is done.
C19_Witness ==
    /\ pc = "done"
    /\ ResumePos = BATCH_SIZE
    /\ ~skip_mode
    /\ Len(batches) = 1
    /\ caller = "flush"
    /\ attempts = <<"error", "error", "error">>

\* C20: checkpoint monotonicity. The identifiers of the stream being
\* unique (the p-th record has the id IdOf(p)), every write of the checkpoint file names a record that lies, in
\* source order, strictly after the record the file named before the write
\* (the previous write's, or the one found at startup) and strictly after
\* the checkpoint loaded at startup; nothing else changes the file, so the
\* position it names never moves backwards.
C20_CheckpointMonotone ==
    /\ \A p \in 1..Len(movies) : movies[p] = IdOf(p)
    /\ \A i \in 2..Len(events) :
          IF events[i].op = "save"
          THEN /\ FilePos(events[i].file) > FilePos(events[i - 1].file)
               /\ FilePos(events[i].file) > ResumePos
          ELSE events[i].file = events[i - 1].file
    /\ events # <<>> => (ckptFile = LastEvent.file /\ FilePos(ckptFile) >= ResumePos)

\* The checkpoint was written twice, for record 100 and then for record 101.
C20_Witness ==
    /\ pc = "done"
    /\ StartFile.kind = "absent"
    /\ Len(SelectSeq(events, LAMBDA e : e.op = "save")) = 2
    /\ FilePos(ckptFile) = BATCH_SIZE + 1

====
